---------------------------- MODULE Spec2Model ----------------------------
(***************************************************************************)
(* The generation-and-filtering pipeline of the story generator:           *)
(*   src/model_utils.py  NextSentencePredictor.clean_generated_text,       *)
(*                       NextSentencePredictor.generate_predictions,       *)
(*                       validate_input                                    *)
(*   src/app.py          generate_stories                                  *)
(* A string is a sequence of one-character strings, so that str.strip,     *)
(* str.split, str.startswith, str.isalpha, slicing and re.split are        *)
(* computed character by character as Python computes them.                *)
(***************************************************************************)
EXTENDS Integers, Sequences, FiniteSets, TLC

VARIABLES
    input_text,       \* the prompt handed to validate_input / the generator
    num_predictions,  \* num_predictions (model_utils.py) / num_stories (app.py)
    mode,             \* which orchestrator runs: "predictions" or "stories"
    loaded,           \* self.model and self.tokenizer are set (load_model succeeded)
    pc,               \* "call" before the call, "loop" in the for loop, "done" after
    i,                \* number of loop iterations completed
    predictions,      \* the local list predictions / stories
    attempts,         \* number of model.generate calls made so far
    accepted_at,      \* accepted_at[k]: the attempt at which predictions[k] was appended
    first_text,       \* the first decoded text of the request, <<>> before it
    all_same,         \* every decoded text so far equals first_text
    raised,           \* an exception was raised inside the try block
    outcome,          \* "none" while running, "returned" or "raised" once the call ended
    result,           \* the list the call returned
    checked,          \* the pair validate_input returned, <<>> while not called
    cleaned           \* clean_prediction / the story built from one decoded text

vars == <<input_text, num_predictions, mode, loaded, pc, i, predictions, attempts,
          accepted_at, first_text, all_same, raised, outcome, result, checked,
          cleaned>>

-----------------------------------------------------------------------------
(* Bounds of the model *)

\* largest num_predictions / num_stories a request asks for
MaxN == 2

\* largest number of whitespace characters put around a validated text
MaxPad == 2

\* largest number of words in the first segment of a filtered text
MaxWords == 2

\* largest number of segments after the first one in a filtered text
MaxRest == 4

-----------------------------------------------------------------------------
(* Program constants *)

\* range(num_predictions * 2), range(num_stories * 2)
OverGeneration == 2

\* len(clean_prediction.split()) >= 3
MinWords == 3

\* len(clean_prediction) >= 10
MinChars == 10

\* len(words[-1]) < 2
MinLastWord == 2

\* sentences[:4]
MaxStorySentences == 4

\* len(sentences) >= 2, len(story_sentences) >= 2
MinStorySentences == 2

\* len(clean_story) > 50
MinStoryChars == 50

\* len(text.strip()) < 3
MinInputLen == 3

\* len(text.strip()) > 200
MaxInputLen == 200

-----------------------------------------------------------------------------
(* Characters *)

\* the characters str.strip() and str.split() treat as whitespace
Whitespace == {" ", "\t", "\n"}

\* the character class [.!?] of the regular expression
Terminators == {".", "!", "?"}

\* the characters str.isalpha() accepts (ASCII letters)
Letters ==
    {"a", "b", "c", "d", "e", "f", "g", "h", "i", "j", "k", "l", "m",
     "n", "o", "p", "q", "r", "s", "t", "u", "v", "w", "x", "y", "z",
     "A", "B", "C", "D", "E", "F", "G", "H", "I", "J", "K", "L", "M",
     "N", "O", "P", "Q", "R", "S", "T", "U", "V", "W", "X", "Y", "Z"}

-----------------------------------------------------------------------------
(* Python string operations *)

\* s[n:]: the slice is empty when n is past the end
SliceFrom(s, n) == IF n >= Len(s) THEN <<>> ELSE SubSeq(s, n + 1, Len(s))

\* s[:n]
SliceTo(s, n) == IF n >= Len(s) THEN s ELSE SubSeq(s, 1, n)

\* s[:-1]
DropLast(s) == IF Len(s) = 0 THEN <<>> ELSE SubSeq(s, 1, Len(s) - 1)

\* text.startswith(prefix)
StartsWith(text, prefix) ==
    /\ Len(prefix) <= Len(text)
    /\ \A k \in 1..Len(prefix) : text[k] = prefix[k]

RECURSIVE LStrip(_)
\* s.lstrip()
LStrip(s) == IF s /= <<>> /\ Head(s) \in Whitespace THEN LStrip(Tail(s)) ELSE s

RECURSIVE RStrip(_)
\* s.rstrip()
RStrip(s) == IF s /= <<>> /\ s[Len(s)] \in Whitespace THEN RStrip(DropLast(s)) ELSE s

\* s.strip()
Strip(s) == RStrip(LStrip(s))

RECURSIVE SkipRun(_, _, _)
\* the first index >= k of s whose character is not in the set cls, Len(s)+1 if none
SkipRun(s, k, cls) ==
    IF k > Len(s) \/ s[k] \notin cls THEN k ELSE SkipRun(s, k + 1, cls)

RECURSIVE FindRun(_, _, _)
\* the first index >= k of s whose character is in the set cls, Len(s)+1 if none
FindRun(s, k, cls) ==
    IF k > Len(s) \/ s[k] \in cls THEN k ELSE FindRun(s, k + 1, cls)

RECURSIVE ReSplitFrom(_, _)
\* the pieces of s from index k on, cut at every run of terminators
ReSplitFrom(s, k) ==
    LET e == FindRun(s, k, Terminators)
        piece == IF e > k THEN SubSeq(s, k, e - 1) ELSE <<>>
    IN  IF e > Len(s)
        THEN <<piece>>
        ELSE <<piece>> \o ReSplitFrom(s, SkipRun(s, e, Terminators))

\* re.split(r'[.!?]+', s): empty pieces at the ends are kept
ReSplit(s) == ReSplitFrom(s, 1)

RECURSIVE SplitFrom(_, _)
\* the words of s from index k on
SplitFrom(s, k) ==
    LET b == SkipRun(s, k, Whitespace)
        e == FindRun(s, b, Whitespace)
    IN  IF b > Len(s) THEN <<>> ELSE <<SubSeq(s, b, e - 1)>> \o SplitFrom(s, e)

\* s.split(): the maximal runs of non-whitespace characters
Split(s) == SplitFrom(s, 1)

\* w.isalpha(): non-empty and letters only
IsAlpha(w) == Len(w) > 0 /\ \A k \in 1..Len(w) : w[k] \in Letters

RECURSIVE Join(_, _)
\* sep.join(parts)
Join(sep, parts) ==
    IF Len(parts) = 0 THEN <<>>
    ELSE IF Len(parts) = 1 THEN parts[1]
    ELSE parts[1] \o sep \o Join(sep, Tail(parts))

\* [f(x) for x in s if f(x)] with f = str.strip
StripNonEmpty(s) == SelectSeq([k \in 1..Len(s) |-> Strip(s[k])], LAMBDA x : x /= <<>>)

\* x in list
InList(x, list) == \E k \in 1..Len(list) : list[k] = x

-----------------------------------------------------------------------------
(* model_utils.py *)

\* clean_generated_text dropping a last word of 2 characters as well
clean_generated_text_short(text, prompt) ==
    LET stripped == IF StartsWith(text, prompt)
                    THEN Strip(SliceFrom(text, Len(prompt)))
                    ELSE text
        sentences == ReSplit(stripped)
        clean_sentence == Strip(sentences[1])
        words == Split(clean_sentence)
        last == words[Len(words)]
    IN  IF clean_sentence /= <<>>
        THEN Join(<<" ">>,
                  IF Len(last) <= MinLastWord \/ ~IsAlpha(last)
                  THEN DropLast(words) ELSE words)
        ELSE Strip(stripped)

\* NextSentencePredictor.clean_generated_text(text, input_text)
clean_generated_text(text, prompt) ==
    LET stripped == IF StartsWith(text, prompt)
                    THEN Strip(SliceFrom(text, Len(prompt)))
                    ELSE text
        sentences == ReSplit(stripped)
        clean_sentence == Strip(sentences[1])
        words == Split(clean_sentence)
        last == words[Len(words)]
    IN  IF clean_sentence /= <<>>
        THEN Join(<<" ">>,
                  IF Len(last) < MinLastWord \/ ~IsAlpha(last)
                  THEN DropLast(words) ELSE words)
        ELSE Strip(stripped)

MsgEmpty == "Input text cannot be empty"

MsgShort == "Input text is too short (minimum 3 characters)"

MsgLong == "Input text is too long (maximum 200 characters)"

\* validate_input measuring the text as given, untrimmed, against the upper limit
validate_input_untrimmed(text) ==
    IF Len(text) = 0 \/ Len(Strip(text)) = 0 THEN <<FALSE, MsgEmpty>>
    ELSE IF Len(Strip(text)) < MinInputLen THEN <<FALSE, MsgShort>>
    ELSE IF Len(text) > MaxInputLen THEN <<FALSE, MsgLong>>
    ELSE <<TRUE, "">>

\* validate_input(text): the pair (is_valid, error_message)
validate_input(text) ==
    IF Len(text) = 0 \/ Len(Strip(text)) = 0 THEN <<FALSE, MsgEmpty>>
    ELSE IF Len(Strip(text)) < MinInputLen THEN <<FALSE, MsgShort>>
    ELSE IF Len(Strip(text)) > MaxInputLen THEN <<FALSE, MsgLong>>
    ELSE <<TRUE, "">>

\* the filter without the membership test
AcceptPredictionRepeated(clean_prediction, preds) ==
    /\ clean_prediction /= <<>>
    /\ Len(Split(clean_prediction)) >= MinWords
    /\ Len(clean_prediction) >= MinChars

\* the filter of generate_predictions: the candidate is appended when this holds
AcceptPrediction(clean_prediction, preds) ==
    /\ clean_prediction /= <<>>
    /\ Len(Split(clean_prediction)) >= MinWords
    /\ ~InList(clean_prediction, preds)
    /\ Len(clean_prediction) >= MinChars

\* if len(predictions) >= num_predictions: break
EnoughPredictions(preds, n) == Len(preds) >= n

\* return predictions[:num_predictions]
PredictionsReturn(preds, n) == SliceTo(preds, n)

\* a handler that lets the exception through
PredictExceptReraise == [outcome |-> "raised", result |-> <<>>]

\* except Exception as e: print(...); return []
PredictExcept == [outcome |-> "returned", result |-> <<>>]

-----------------------------------------------------------------------------
(* app.py *)

\* generated_text[len(input_text):].strip()
NewText(generated_text, prompt) == Strip(SliceFrom(generated_text, Len(prompt)))

\* the story built from one decoded text: <<clean_story>>, or <<>> when the text
\* has fewer than two sentences
CleanStory(generated_text, prompt) ==
    LET sentences == ReSplit(NewText(generated_text, prompt))
        story_sentences == StripNonEmpty(SliceTo(sentences, MaxStorySentences))
    IN  IF Len(sentences) >= MinStorySentences /\ Len(story_sentences) >= MinStorySentences
        THEN <<Join(<<".", " ">>, story_sentences) \o <<".">>>>
        ELSE <<>>

\* the filter without the length test
AcceptStoryAnyLength(clean_story, stories) == ~InList(clean_story, stories)

\* if len(clean_story) > 50 and clean_story not in stories
AcceptStory(clean_story, stories) ==
    Len(clean_story) > MinStoryChars /\ ~InList(clean_story, stories)

\* the return without the slice
StoriesReturnAll(stories, n) == stories

\* return stories[:num_stories]
StoriesReturn(stories, n) == SliceTo(stories, n)

\* except Exception as e: st.error(...); return []
StoriesExcept == [outcome |-> "returned", result |-> <<>>]

-----------------------------------------------------------------------------
(* The decoded texts the language model may return *)

\* 'I went to the store to' : the prompt of the spec scenario and of test_predictions
PromptStore ==
    <<"I", " ", "w", "e", "n", "t", " ", "t", "o", " ", "t", "h", "e", " ", "s", "t", "o",
      "r", "e", " ", "t", "o">>

\* 'Hi' : a prompt validate_input rejects as too short (test_input_validation)
PromptHi ==
    <<"H", "i">>

\* ' buy milk and bread. Then I went home. It was raining.'
ContMilk ==
    <<" ", "b", "u", "y", " ", "m", "i", "l", "k", " ", "a", "n", "d", " ", "b", "r", "e",
      "a", "d", ".", " ", "T", "h", "e", "n", " ", "I", " ", "w", "e", "n", "t", " ", "h",
      "o", "m", "e", ".", " ", "I", "t", " ", "w", "a", "s", " ", "r", "a", "i", "n", "i",
      "n", "g", ".">>

\* ' buy milk and bread! Then I went home?! It was raining...'
ContMilkBang ==
    <<" ", "b", "u", "y", " ", "m", "i", "l", "k", " ", "a", "n", "d", " ", "b", "r", "e",
      "a", "d", "!", " ", "T", "h", "e", "n", " ", "I", " ", "w", "e", "n", "t", " ", "h",
      "o", "m", "e", "?", "!", " ", "I", "t", " ", "w", "a", "s", " ", "r", "a", "i", "n",
      "i", "n", "g", ".", ".", ".">>

\* ' buy milk and br3ad'
ContCut ==
    <<" ", "b", "u", "y", " ", "m", "i", "l", "k", " ", "a", "n", "d", " ", "b", "r", "3",
      "a", "d">>

\* ' get some fresh eggs! They were sold out? So I walked back to my house.'
ContEggs ==
    <<" ", "g", "e", "t", " ", "s", "o", "m", "e", " ", "f", "r", "e", "s", "h", " ", "e",
      "g", "g", "s", "!", " ", "T", "h", "e", "y", " ", "w", "e", "r", "e", " ", "s", "o",
      "l", "d", " ", "o", "u", "t", "?", " ", "S", "o", " ", "I", " ", "w", "a", "l", "k",
      "e", "d", " ", "b", "a", "c", "k", " ", "t", "o", " ", "m", "y", " ", "h", "o", "u",
      "s", "e", ".">>

\* '. Then I went home today. It was raining all day long here.'
ContDot ==
    <<".", " ", "T", "h", "e", "n", " ", "I", " ", "w", "e", "n", "t", " ", "h", "o", "m",
      "e", " ", "t", "o", "d", "a", "y", ".", " ", "I", "t", " ", "w", "a", "s", " ", "r",
      "a", "i", "n", "i", "n", "g", " ", "a", "l", "l", " ", "d", "a", "y", " ", "l", "o",
      "n", "g", " ", "h", "e", "r", "e", ".">>

\* ' I went to the store to see my old friend. We talked a lot. It was good fun and games.'
ContEcho ==
    <<" ", "I", " ", "w", "e", "n", "t", " ", "t", "o", " ", "t", "h", "e", " ", "s", "t",
      "o", "r", "e", " ", "t", "o", " ", "s", "e", "e", " ", "m", "y", " ", "o", "l", "d",
      " ", "f", "r", "i", "e", "n", "d", ".", " ", "W", "e", " ", "t", "a", "l", "k", "e",
      "d", " ", "a", " ", "l", "o", "t", ".", " ", "I", "t", " ", "w", "a", "s", " ", "g",
      "o", "o", "d", " ", "f", "u", "n", " ", "a", "n", "d", " ", "g", "a", "m", "e", "s",
      ".">>

\* ' ok'
ContOk ==
    <<" ", "o", "k">>

\* 'Sorry what did you say to me. I did not hear you well. Please say it again for me.'
RawNoEcho ==
    <<"S", "o", "r", "r", "y", " ", "w", "h", "a", "t", " ", "d", "i", "d", " ", "y", "o",
      "u", " ", "s", "a", "y", " ", "t", "o", " ", "m", "e", ".", " ", "I", " ", "d", "i",
      "d", " ", "n", "o", "t", " ", "h", "e", "a", "r", " ", "y", "o", "u", " ", "w", "e",
      "l", "l", ".", " ", "P", "l", "e", "a", "s", "e", " ", "s", "a", "y", " ", "i", "t",
      " ", "a", "g", "a", "i", "n", " ", "f", "o", "r", " ", "m", "e", ".">>

\* ' Go on now. Do it.'
ContShort ==
    <<" ", "G", "o", " ", "o", "n", " ", "n", "o", "w", ".", " ", "D", "o", " ", "i", "t",
      ".">>

\* what the model appends to the echoed prompt
Continuations ==
    {ContMilk, ContMilkBang, ContCut, ContEggs, ContDot, ContEcho, ContOk, ContShort}

\* tokenizer.decode(outputs[0]): the prompt followed by a continuation, or a text
\* that does not start with the prompt
RawCompletions(prompt) == {prompt \o c : c \in Continuations} \cup {RawNoEcho}

Prompts == {PromptStore, PromptHi}

Modes == {"predictions", "stories"}

-----------------------------------------------------------------------------
(* One request: generate_predictions(input_text, num_predictions) or            *)
(* generate_stories(input_text, model, tokenizer, num_stories)                  *)

Init ==
    /\ input_text \in Prompts
    /\ num_predictions \in 1..MaxN
    /\ mode \in Modes
    /\ loaded \in BOOLEAN
    /\ pc = "call"
    /\ i = 0
    /\ predictions = <<>>
    /\ attempts = 0
    /\ accepted_at = <<>>
    /\ first_text = <<>>
    /\ all_same = TRUE
    /\ raised = FALSE
    /\ outcome = "none"
    /\ result = <<>>
    /\ checked = <<>>
    /\ cleaned = <<>>

\* the call ends: the value is returned (or the exception leaves the function)
Finish(how) ==
    /\ pc' = "done"
    /\ outcome' = how.outcome
    /\ result' = how.result

\* the request's record of the texts tokenizer.decode returned
Decoded(generated_text) ==
    /\ first_text' = IF attempts = 0 THEN generated_text ELSE first_text
    /\ all_same' = (all_same /\ (attempts = 0 \/ generated_text = first_text))

\* if not self.model or not self.tokenizer: return []
PredictNotLoaded ==
    /\ pc = "call" /\ mode = "predictions" /\ ~loaded
    /\ Finish([outcome |-> "returned", result |-> <<>>])
    /\ UNCHANGED <<input_text, num_predictions, mode, loaded, i, predictions, attempts,
                   accepted_at, first_text, all_same, raised, checked, cleaned>>

\* input_ids = tokenizer.encode(input_text, return_tensors='pt') succeeds
Encode ==
    /\ pc = "call" /\ loaded
    /\ pc' = "loop"
    /\ UNCHANGED <<input_text, num_predictions, mode, loaded, i, predictions, attempts,
                   accepted_at, first_text, all_same, raised, outcome, result, checked,
                   cleaned>>

\* tokenizer.encode raises (in generate_stories a tokenizer of None always does)
EncodeFails ==
    /\ pc = "call" /\ (loaded \/ mode = "stories")
    /\ raised' = TRUE
    /\ Finish(IF mode = "predictions" THEN PredictExcept ELSE StoriesExcept)
    /\ UNCHANGED <<input_text, num_predictions, mode, loaded, i, predictions, attempts,
                   accepted_at, first_text, all_same, checked, cleaned>>

\* model.generate or tokenizer.decode raises inside the loop
GenerateFails ==
    /\ pc = "loop"
    /\ attempts' = attempts + 1
    /\ raised' = TRUE
    /\ Finish(IF mode = "predictions" THEN PredictExcept ELSE StoriesExcept)
    /\ UNCHANGED <<input_text, num_predictions, mode, loaded, i, predictions,
                   accepted_at, first_text, all_same, checked, cleaned>>

\* one iteration of the loop of generate_predictions with decoded text generated_text
PredictAttempt(generated_text) ==
    /\ pc = "loop" /\ mode = "predictions"
    /\ LET clean_prediction == clean_generated_text(generated_text, input_text)
           take == AcceptPrediction(clean_prediction, predictions)
           preds == IF take THEN Append(predictions, clean_prediction) ELSE predictions
       IN  /\ predictions' = preds
           /\ accepted_at' = IF take THEN Append(accepted_at, attempts + 1) ELSE accepted_at
           /\ IF EnoughPredictions(preds, num_predictions)
                 \/ i + 1 >= num_predictions * OverGeneration
              THEN Finish([outcome |-> "returned",
                           result |-> PredictionsReturn(preds, num_predictions)])
              ELSE UNCHANGED <<pc, outcome, result>>
    /\ i' = i + 1
    /\ attempts' = attempts + 1
    /\ Decoded(generated_text)
    /\ UNCHANGED <<input_text, num_predictions, mode, loaded, raised, checked, cleaned>>

\* one iteration of the loop of generate_stories with decoded text generated_text
StoryAttempt(generated_text) ==
    /\ pc = "loop" /\ mode = "stories"
    /\ LET clean_story == CleanStory(generated_text, input_text)
           take == clean_story /= <<>> /\ AcceptStory(clean_story[1], predictions)
           stories == IF take THEN Append(predictions, clean_story[1]) ELSE predictions
       IN  /\ predictions' = stories
           /\ accepted_at' = IF take THEN Append(accepted_at, attempts + 1) ELSE accepted_at
           /\ IF i + 1 >= num_predictions * OverGeneration
              THEN Finish([outcome |-> "returned",
                           result |-> StoriesReturn(stories, num_predictions)])
              ELSE UNCHANGED <<pc, outcome, result>>
    /\ i' = i + 1
    /\ attempts' = attempts + 1
    /\ Decoded(generated_text)
    /\ UNCHANGED <<input_text, num_predictions, mode, loaded, raised, checked, cleaned>>

\* the caller applies validate_input to the text
ValidateInput ==
    /\ pc = "validate"
    /\ checked' = validate_input(input_text)
    /\ pc' = "validated"
    /\ UNCHANGED <<input_text, num_predictions, mode, loaded, i, predictions, attempts,
                   accepted_at, first_text, all_same, raised, outcome, result,
                   cleaned>>

Next ==
    \/ PredictNotLoaded
    \/ Encode
    \/ EncodeFails
    \/ GenerateFails
    \/ \E generated_text \in RawCompletions(input_text) : PredictAttempt(generated_text)
    \/ \E generated_text \in RawCompletions(input_text) : StoryAttempt(generated_text)

Spec == Init /\ [][Next]_vars

-----------------------------------------------------------------------------
(* validate_input applied to one text *)

\* n copies of the character c
Rep(c, n) == [k \in 1..n |-> c]

\* the whitespace put before and after a text
Pads == UNION {[1..k -> Whitespace] : k \in 0..MaxPad}

\* the texts between the whitespace: around both limits, and with whitespace inside
Bodies ==
    {Rep("a", n) : n \in {0, 1, 2, 3, 4, 199, 200, 201, 250}}
        \cup {PromptHi, PromptStore, <<"a", " ", "b">>, <<"a", "\t">> \o Rep("b", 198),
              <<"a", "\n">> \o Rep("b", 199)}

ValidationTexts == {l \o b \o r : l \in Pads, b \in Bodies, r \in Pads}

InitValidate ==
    /\ input_text \in ValidationTexts
    /\ num_predictions = 1
    /\ mode = "predictions"
    /\ loaded = TRUE
    /\ pc = "validate"
    /\ i = 0
    /\ predictions = <<>>
    /\ attempts = 0
    /\ accepted_at = <<>>
    /\ first_text = <<>>
    /\ all_same = TRUE
    /\ raised = FALSE
    /\ outcome = "none"
    /\ result = <<>>
    /\ checked = <<>>
    /\ cleaned = <<>>

NextValidate == ValidateInput

SpecValidate == InitValidate /\ [][NextValidate]_vars

-----------------------------------------------------------------------------
(* The two filters applied to one decoded text *)

\* 'bread'
WordBread ==
    <<"b", "r", "e", "a", "d">>

\* 'br3ad'
WordCut ==
    <<"b", "r", "3", "a", "d">>

\* 'a'
WordA ==
    <<"a">>

\* 'it'
WordIt ==
    <<"i", "t">>

\* ' Then I went home'
SegHome ==
    <<" ", "T", "h", "e", "n", " ", "I", " ", "w", "e", "n", "t", " ", "h", "o", "m", "e">>

\* ' It was raining'
SegRain ==
    <<" ", "I", "t", " ", "w", "a", "s", " ", "r", "a", "i", "n", "i", "n", "g">>

\* ' buy milk'
SegMilk ==
    <<" ", "b", "u", "y", " ", "m", "i", "l", "k">>

\* the words a first segment is made of: kept, cut by the length limit, of one
\* letter, of two letters
FilterWords == {WordBread, WordCut, WordA, WordIt}

\* the whitespace between two words
Gaps == {<<" ">>, <<" ", "\t">>}

\* the first segments: up to MaxWords words, after a space
FirstSegments ==
    {<<>>, <<" ">>}
        \cup {<<" ">> \o Join(g, ws) :
                 g \in Gaps, ws \in UNION {[1..k -> FilterWords] : k \in 1..MaxWords}}

\* the segments after the first one: empty, blank, two sentences
RestSegments == {<<>>, <<" ">>, SegHome, SegRain}

\* the decoded texts with a varied first segment
VariedFirst ==
    {f \o t : f \in FirstSegments,
              t \in {<<>>, <<".">>, <<"?", "!">> \o SegHome \o <<".">> \o SegRain}}

\* the decoded texts with varied later segments, each after a full stop
VariedRest ==
    {f \o <<".">> \o Join(<<".">>, r) :
        f \in {<<>>, SegMilk},
        r \in UNION {[1..k -> RestSegments] : k \in 0..MaxRest}}

\* the texts handed to the filters: the model's texts, and the prompt or nothing or
\* a space followed by the varied texts
FilterTexts(prompt) ==
    RawCompletions(prompt)
        \cup {pre \o t : pre \in {prompt, <<>>, <<" ">>}, t \in VariedFirst \cup VariedRest}

InitFilter ==
    /\ input_text \in Prompts
    /\ first_text \in FilterTexts(input_text)
    /\ num_predictions = 1
    /\ mode = "predictions"
    /\ loaded = TRUE
    /\ pc = "filter"
    /\ i = 0
    /\ predictions = <<>>
    /\ attempts = 0
    /\ accepted_at = <<>>
    /\ all_same = TRUE
    /\ raised = FALSE
    /\ outcome = "none"
    /\ result = <<>>
    /\ checked = <<>>
    /\ cleaned = <<>>

\* clean_prediction = self.clean_generated_text(generated_text, input_text)
CleanPrediction ==
    /\ pc = "filter"
    /\ cleaned' = clean_generated_text(first_text, input_text)
    /\ pc' = "cleaned"
    /\ UNCHANGED <<input_text, num_predictions, mode, loaded, i, predictions, attempts,
                   accepted_at, first_text, all_same, raised, outcome, result, checked>>

\* the story generate_stories builds from generated_text: <<clean_story>>, or <<>>
\* when the text is rejected
BuildStory ==
    /\ pc = "filter"
    /\ cleaned' = CleanStory(first_text, input_text)
    /\ pc' = "built"
    /\ UNCHANGED <<input_text, num_predictions, mode, loaded, i, predictions, attempts,
                   accepted_at, first_text, all_same, raised, outcome, result, checked>>

NextFilter ==
    \/ CleanPrediction
    \/ BuildStory

SpecFilter == InitFilter /\ [][NextFilter]_vars

-----------------------------------------------------------------------------
(* Properties *)

\* no two entries of the list are equal
NoDup(list) == \A a, b \in 1..Len(list) : list[a] = list[b] => a = b

\* the decoded text passes the size filter of the running mode on an empty list
Acceptable(generated_text) ==
    IF mode = "predictions"
    THEN AcceptPrediction(clean_generated_text(generated_text, input_text), <<>>)
    ELSE LET story == CleanStory(generated_text, input_text)
         IN  story /= <<>> /\ AcceptStory(story[1], <<>>)

\* the attempt budget of the request
Budget == 2 * num_predictions

\* C1: the list a request returns is never longer than num_predictions
\* (num_stories), in generate_predictions and in generate_stories.
ResultAtMostN == pc = "done" => Len(result) <= num_predictions

\* C1 witness: generate_stories accepted more stories than asked for and returned
\* exactly num_stories of them.
ResultAtMostNWitness ==
    /\ pc = "done" /\ mode = "stories" /\ outcome = "returned"
    /\ Len(predictions) > num_predictions
    /\ Len(result) = num_predictions

\* C2: the accepted list holds no two equal strings at any point of the loop, nor
\* does the returned list; and when every decoded text of a request that ran to
\* its end is the same acceptable text, the result holds exactly one candidate.
NoDuplicates ==
    /\ NoDup(predictions)
    /\ NoDup(result)
    /\ (pc = "done" /\ ~raised /\ attempts > 0 /\ all_same /\ Acceptable(first_text))
         => Len(result) = 1

\* C2 witness: the same acceptable text came back on every one of at least four
\* attempts and the request returned a single candidate.
NoDuplicatesWitness ==
    /\ pc = "done" /\ ~raised /\ all_same
    /\ attempts >= 4 /\ attempts = Budget
    /\ Acceptable(first_text)
    /\ Len(result) = 1

\* C3: a failed sampling attempt loses only itself: every candidate accepted
\* before it is in the returned list (up to num_predictions of them) and, while
\* fewer than num_predictions are accepted, the rest of the 2N attempts are made.
FailedAttemptLosesOnlyItself ==
    (pc = "done" /\ raised /\ attempts >= 1)
        => /\ \A k \in 1..Len(predictions) :
                 k <= num_predictions => InList(predictions[k], result)
           /\ Len(predictions) < num_predictions => attempts = Budget

\* C4: generate_predictions makes no generation attempt for a prompt that
\* validate_input rejects, and the call ends in a validation error.
PredictValidatesFirst ==
    (mode = "predictions" /\ ~validate_input(input_text)[1])
        => /\ attempts = 0
           /\ pc = "done" => outcome = "raised"

\* C5: no candidate returned by generate_predictions contains '.', '!' or '?'.
NoTerminatorInPrediction ==
    (pc = "done" /\ mode = "predictions")
        => \A k \in 1..Len(result) :
               \A j \in 1..Len(result[k]) : result[k][j] \notin {".", "!", "?"}

\* C6: no candidate returned by generate_predictions or generate_stories begins
\* with the prompt.
NoPromptPrefix ==
    pc = "done" => \A k \in 1..Len(result) : ~StartsWith(result[k], input_text)

\* C7: generate_predictions on a loaded model makes at most 2N sampling attempts:
\* as many as the attempt that accepted the N-th candidate, or 2N when fewer than
\* N are accepted.
PredictAttemptCount ==
    (pc = "done" /\ mode = "predictions" /\ loaded /\ attempts >= 1)
        => /\ attempts <= Budget
           /\ IF Len(predictions) >= num_predictions
              THEN attempts = accepted_at[num_predictions]
              ELSE attempts = Budget

\* C8: generate_stories makes at most 2N sampling attempts and none after the
\* attempt that accepted the N-th story.
StoriesStopEarly ==
    mode = "stories"
        => /\ attempts <= Budget
           /\ Len(predictions) >= num_predictions
                 => attempts = accepted_at[num_predictions]

\* the number of whitespace characters before the first other character
LeadingWs(s) ==
    Cardinality({k \in 1..Len(s) : \A j \in 1..k : s[j] \in Whitespace})

\* the number of whitespace characters after the last other character
TrailingWs(s) ==
    Cardinality({k \in 1..Len(s) : \A j \in k..Len(s) : s[j] \in Whitespace})

\* the length of the text without its surrounding whitespace
TrimmedLen(s) ==
    IF LeadingWs(s) = Len(s) THEN 0 ELSE Len(s) - LeadingWs(s) - TrailingWs(s)

\* C9: validate_input returns (True, "") exactly when the trimmed text has 3 to
\* 200 characters, and otherwise False with the message of the violated
\* constraint: empty, too short (1 or 2 characters), too long (over 200).
ValidateInputContract ==
    pc = "validated"
        => LET n == TrimmedLen(input_text)
           IN  /\ checked = <<TRUE, "">> <=> (3 <= n /\ n <= 200)
               /\ n = 0 => checked = <<FALSE, "Input text cannot be empty">>
               /\ n \in {1, 2}
                    => checked = <<FALSE, "Input text is too short (minimum 3 characters)">>
               /\ n > 200
                    => checked = <<FALSE, "Input text is too long (maximum 200 characters)">>

\* C9 witness: a text of more than 200 characters whose trimmed length is exactly
\* 200 was validated and accepted.
ValidateInputContractWitness ==
    /\ pc = "validated"
    /\ Len(input_text) > 200 /\ TrimmedLen(input_text) = 200
    /\ checked = <<TRUE, "">>

\* C10: no failure leaves generate_predictions or generate_stories: a call that
\* ended returned a list, the empty list when a failure was caught or no
\* candidate was accepted.
NoFailurePropagates ==
    /\ outcome /= "raised"
    /\ pc = "done"
         => /\ outcome = "returned"
            /\ (raised \/ predictions = <<>>) => result = <<>>

\* C10 witness: a sampling attempt raised after a candidate had been accepted and
\* the call returned the empty list.
NoFailurePropagatesWitness ==
    /\ pc = "done" /\ raised /\ attempts >= 2
    /\ predictions /= <<>>
    /\ outcome = "returned" /\ result = <<>>

\* the number of words of s: the places where a run of non-whitespace starts
WordCount(s) ==
    Cardinality({k \in 1..Len(s) :
                    s[k] \notin Whitespace /\ (k = 1 \/ s[k - 1] \in Whitespace)})

\* the candidate has the minimum size of the running mode
BigEnough(candidate) ==
    IF mode = "predictions"
    THEN candidate /= <<>> /\ Len(candidate) >= 10 /\ WordCount(candidate) >= 3
    ELSE Len(candidate) > 50

\* C11: every accepted and every returned candidate has the minimum size of its
\* mode: at least 10 characters and 3 words in generate_predictions, more than 50
\* characters in generate_stories.
MinimumSize ==
    /\ \A k \in 1..Len(predictions) : BigEnough(predictions[k])
    /\ \A k \in 1..Len(result) : BigEnough(result[k])

\* C11 witness: generate_stories built a story of at most 50 characters from its
\* first decoded text, and returned other stories without it.
MinimumSizeWitness ==
    /\ pc = "done" /\ mode = "stories" /\ ~raised
    /\ CleanStory(first_text, input_text) /= <<>>
    /\ Len(CleanStory(first_text, input_text)[1]) <= 50
    /\ Len(result) >= 1
    /\ ~InList(CleanStory(first_text, input_text)[1], result)

\* s without its surrounding whitespace
Trimmed(s) ==
    IF TrimmedLen(s) = 0 THEN <<>>
    ELSE SubSeq(s, LeadingWs(s) + 1, Len(s) - TrailingWs(s))

\* the n-th smallest element of the set S of numbers
Nth(S, n) == CHOOSE k \in S : Cardinality({j \in S : j <= k}) = n

\* the places of t where a maximal run of non-terminator characters starts
RunStarts(t) ==
    {k \in 1..Len(t) : t[k] \notin {".", "!", "?"} /\ (k = 1 \/ t[k - 1] \in {".", "!", "?"})}

\* the run of non-terminator characters of t that starts at k
RunAt(t, k) ==
    LET e == CHOOSE j \in k..Len(t) :
                 /\ \A m \in k..j : t[m] \notin {".", "!", "?"}
                 /\ j = Len(t) \/ t[j + 1] \in {".", "!", "?"}
    IN  SubSeq(t, k, e)

\* the trimmed, non-empty segments of t, in order
NonEmptySegments(t) ==
    LET starts == {k \in RunStarts(t) : Trimmed(RunAt(t, k)) /= <<>>}
    IN  [n \in 1..Cardinality(starts) |-> Trimmed(RunAt(t, Nth(starts, n)))]

\* the text after the echoed prompt
AfterPrompt(text, prompt) ==
    IF Len(text) <= Len(prompt) THEN <<>> ELSE SubSeq(text, Len(prompt) + 1, Len(text))

\* the story of a decoded text that starts with the prompt: its first up to 4
\* non-empty segments, each followed by a full stop, with a space between two;
\* <<>> when there are fewer than 2
StoryOfNonEmpty(text, prompt) ==
    LET segs == NonEmptySegments(AfterPrompt(text, prompt))
        kept == IF Len(segs) > 4 THEN 4 ELSE Len(segs)
    IN  IF Len(segs) < 2 THEN <<>>
        ELSE <<Join(<<".", " ">>, SubSeq(segs, 1, kept)) \o <<".">>>>

\* C12: the story built from a decoded text that starts with the prompt is made
\* of the first up to 4 non-empty segments of the text after the prompt, the empty
\* ones discarded before counting; with fewer than 2 the text is rejected.
StoryFromNonEmptySegments ==
    (pc = "built" /\ StartsWith(first_text, input_text))
        => cleaned = StoryOfNonEmpty(first_text, input_text)

\* the text the prompt has been stripped from: the trimmed rest of a text that
\* starts with the prompt, the whole text otherwise
PromptStripped(text, prompt) ==
    IF Len(text) >= Len(prompt) /\ SubSeq(text, 1, Len(prompt)) = prompt
    THEN Trimmed(AfterPrompt(text, prompt))
    ELSE text

\* the characters of t before its first terminator
FirstSegment(t) ==
    SubSeq(t, 1, Cardinality({k \in 1..Len(t) :
                                 \A j \in 1..k : t[j] \notin {".", "!", "?"}}))

\* the word of s that starts at k
WordAt(s, k) ==
    LET e == CHOOSE j \in k..Len(s) :
                 /\ \A m \in k..j : s[m] \notin Whitespace
                 /\ j = Len(s) \/ s[j + 1] \in Whitespace
    IN  SubSeq(s, k, e)

\* the words of s, in order
WordsOf(s) ==
    LET starts == {k \in 1..Len(s) :
                      s[k] \notin Whitespace /\ (k = 1 \/ s[k - 1] \in Whitespace)}
    IN  [n \in 1..Cardinality(starts) |-> WordAt(s, Nth(starts, n))]

\* the word is shorter than 2 characters or has a character that is no letter
LooksCut(w) == Len(w) < 2 \/ \E k \in 1..Len(w) : w[k] \notin Letters

\* the words of the first segment with single spaces between them, without the
\* last word when it looks cut
RepairedFirstSegment(text, prompt) ==
    LET ws == WordsOf(FirstSegment(PromptStripped(text, prompt)))
    IN  Join(<<" ">>, IF LooksCut(ws[Len(ws)]) THEN SubSeq(ws, 1, Len(ws) - 1) ELSE ws)

\* C13: for a decoded text whose first segment after prompt stripping holds at
\* least one word, clean_generated_text returns the words of that segment joined
\* by single spaces, the last word dropped exactly when it is shorter than 2
\* characters or has a non-alphabetic character.
FirstSegmentRepaired ==
    (pc = "cleaned" /\ Trimmed(FirstSegment(PromptStripped(first_text, input_text))) /= <<>>)
        => cleaned = RepairedFirstSegment(first_text, input_text)

\* C13 witness: the text 'I went to the store to buy milk and br3ad' was cleaned
\* to 'buy milk and'.
FirstSegmentRepairedWitness ==
    /\ pc = "cleaned"
    /\ input_text = PromptStore /\ first_text = PromptStore \o ContCut
    /\ cleaned = <<"b", "u", "y", " ", "m", "i", "l", "k", " ", "a", "n", "d">>

=============================================================================
